---- MODULE Spec2Model ----
(***************************************************************************)
(* Model of django_spanner/creation.py: DatabaseCreation.mark_skips,       *)
(* create_test_db, _create_test_db, _execute_create_test_db and            *)
(* _destroy_test_db, together with the collaborators they call (the        *)
(* Spanner instance, the connection, input(), call_command, sys.exit).     *)
(* create_test_db is sequential; every collaborator call is one step whose *)
(* outcome (return or raise) is chosen nondeterministically.               *)
(***************************************************************************)
EXTENDS FiniteSets, Naturals, Sequences, TLC

VARIABLES
    pc,           \* position of the process in create_test_db / its final outcome
    opts,         \* arguments of create_test_db: verbosity, autoclobber, serialize, keepdb
    env,          \* os.environ.get("RUNNING_SPANNER_BACKEND_TESTS")
    installed,    \* settings.INSTALLED_APPS
    wrapDepth,    \* per test method: how many skip() wrappers are around it
    imported,     \* test case names import_string has resolved so far
    service,      \* the Spanner instance: database name -> database state
    conn,         \* self.connection: settings_dict["NAME"], close/ensure calls, and
                  \* _test_serialized_contents as a set (empty while the attribute is unset)
    settingsName, \* settings.DATABASES[alias]["NAME"]
    confirm,      \* local variable confirm of _create_test_db
    retval,       \* value returned by create_test_db
    raisedBy,     \* the call whose exception left create_test_db uncaught
    test_database_name, \* local test_database_name of create_test_db
    dbname,       \* test_db_params["dbname"] of _create_test_db
    events,       \* history: the collaborator calls made so far, in order
    directMarks   \* number of direct calls of mark_skips made so far

vars == <<pc, opts, env, installed, wrapDepth, imported, service, conn, settingsName,
          confirm, retval, raisedBy, test_database_name, dbname, events, directMarks>>

----------------------------------------------------------------------------
(* Bounds of the model *)

\* number of distinct data rows a database may hold
MaxRows == 1

\* number of calls of mark_skips made outside create_test_db
MaxDirectMarks == 1

Rows == 1..MaxRows

----------------------------------------------------------------------------
(* Values *)

None == "None"

\* connection.settings_dict["NAME"] as configured before the run
CfgName == "db"

\* Django's TEST_DATABASE_PREFIX + settings_dict["NAME"], as _get_test_db_name yields
\* when no TEST NAME is configured
_get_test_db_name(name) == "test_" \o name

DbNames == {CfgName, _get_test_db_name(CfgName)}

Absent == [exists |-> FALSE, rows |-> {}, cache |-> FALSE]

DbStates == {Absent} \cup [exists : {TRUE}, rows : SUBSET Rows, cache : BOOLEAN]

\* what input() can hand back; only the exact string "yes" is affirmative
Inputs == {"yes", "no", "y", "YES", ""}

\* connection.features.skip_tests: dotted names, one component per element
skip_tests ==
    << <<"app1", "tests", "CaseA", "test_x">>,
       <<"app1", "tests", "CaseA", "test_y">>,
       <<"app2", "tests", "CaseB", "test_z">> >>

Apps == {"app1", "app2"}

\* one collaborator call: what was called, on what, and whether it returned ("ok")
\* or raised ("raise")
Ev(op, arg, res) == [op |-> op, arg |-> arg, res |-> res]

\* the opaque encode capability serialize_db_to_string: the rows of the database
\* the connection points at, as a serialized blob
Encode(rows) == [blob |-> rows]

Snapshot(db) == Encode(db.rows)

----------------------------------------------------------------------------
(* mark_skips *)

\* test_name.rpartition("."): (test_case_name, method_name)
rpartition(test_name) ==
    <<SubSeq(test_name, 1, Len(test_name) - 1), test_name[Len(test_name)]>>

\* test_name.split(".")[0]
test_app(test_name) == test_name[1]

Methods == {rpartition(skip_tests[i]) : i \in DOMAIN skip_tests}

\* setattr(test_case, method_name, skip(...)(getattr(test_case, method_name)))
WrapOnce(wd, m) == [wd EXCEPT ![m] = @ + 1]

\* the body of the for loop for the first n entries of skip_tests
RECURSIVE MarkFirst(_, _, _)
MarkFirst(wd, apps, n) ==
    IF n = 0 THEN wd
    ELSE LET before == MarkFirst(wd, apps, n - 1)
             name   == skip_tests[n]
         IN  IF test_app(name) \in apps
             THEN WrapOnce(before, rpartition(name))
             ELSE before

\* variant: the INSTALLED_APPS test of line 28 is left out
mark_skips_AllApps(wd, apps) == MarkFirst(wd, Apps, Len(skip_tests))

mark_skips(wd, apps) == MarkFirst(wd, apps, Len(skip_tests))

\* line 29: the test cases import_string is called on in one run of mark_skips
Resolved(apps) ==
    {rpartition(skip_tests[i])[1] : i \in {j \in DOMAIN skip_tests : test_app(skip_tests[j]) \in apps}}

\* calling a test method: unittest's skip wrapper raises SkipTest without calling
\* the method it wraps
Invoke(wd, m) == IF wd[m] >= 1 THEN "skipped" ELSE "executed"

----------------------------------------------------------------------------
(* Initial state: no call of create_test_db has started *)

Init ==
    /\ pc = "idle"
    /\ opts = [verbosity |-> 1, autoclobber |-> FALSE, serialize |-> TRUE, keepdb |-> FALSE]
    /\ env \in {"1", "0", None}
    /\ installed \in SUBSET Apps
    /\ wrapDepth = [m \in Methods |-> 0]
    /\ imported = {}
    /\ service \in [DbNames -> DbStates]
    /\ conn = [name |-> CfgName, closed |-> 0, ensured |-> 0, snapshot |-> {}]
    /\ settingsName = CfgName
    /\ confirm = None
    /\ retval = None
    /\ raisedBy = None
    /\ test_database_name = None
    /\ dbname = None
    /\ events = << >>
    /\ directMarks = 0

----------------------------------------------------------------------------
(* The database service: instance.database(name).create() and .drop() *)

\* the request can succeed only if no database of that name exists
CanCreate(svc, name) == ~svc[name].exists

Created(svc, name) == [svc EXCEPT ![name] = [exists |-> TRUE, rows |-> {}, cache |-> FALSE]]

\* the request can succeed only if the database exists
CanDrop(svc, name) == svc[name].exists

Dropped(svc, name) == [svc EXCEPT ![name] = Absent]

\* connection.ensure_connection() surfaces a connection error: it can return
\* only if the database the connection names exists
CanConnect(svc, name) == svc[name].exists

\* call_command('createcachetable'): the cache table is there afterwards
CacheTableCreated(svc, name) ==
    IF svc[name].exists THEN [svc EXCEPT ![name].cache = TRUE] ELSE svc

----------------------------------------------------------------------------
(* Decisions of create_test_db and _create_test_db *)

\* variant: the environment flag is not consulted
SkipsActive_Always(e) == TRUE

\* line 45
SkipsActive(e) == e = "1"

\* lines 52-54
ActionWord(keepdb) == IF keepdb THEN "Using existing" ELSE "Creating"

\* variant: the except branch forgets the keepdb test of line 99
AfterCreateError_IgnoreKeepdb(keepdb, autoclobber) ==
    IF ~autoclobber THEN "input" ELSE "destroy"

\* variant: the except branch asks for confirmation whatever autoclobber says
AfterCreateError_AlwaysAsk(keepdb, autoclobber) ==
    IF keepdb THEN "close" ELSE "input"

\* lines 96-102: where the except branch of the first create goes
AfterCreateError(keepdb, autoclobber) ==
    IF keepdb THEN "close"
    ELSE IF ~autoclobber THEN "input" ELSE "destroy"

\* variant: the answer to the prompt is not looked at
Clobber_Always(autoclobber, answer) == TRUE

\* variant: any answer starting with y counts as affirmative
Clobber_Lenient(autoclobber, answer) == autoclobber \/ answer \in {"yes", "y", "YES"}

\* line 107
Clobber(autoclobber, answer) == autoclobber \/ answer = "yes"

\* variant: the snapshot is taken whether or not serialize was requested
AfterRename_AlwaysSerialize(serialize) == "serialize"

\* variant: the snapshot is never taken
AfterRename_NeverSerialize(serialize) == "createcachetable"

\* variant: without a snapshot the cache table command is skipped as well
AfterRename_SkipCacheTable(serialize) == IF serialize THEN "serialize" ELSE "ensure"

\* line 74
AfterRename(serialize) == IF serialize THEN "serialize" ELSE "createcachetable"

\* variant: the connection is closed but keeps its configured name
ClosedAndRenamed_KeepName(c, name) == [c EXCEPT !.closed = @ + 1]

\* lines 67 and 69: connection.close(), settings_dict["NAME"] = test_database_name
ClosedAndRenamed(c, name) == [c EXCEPT !.closed = @ + 1, !.name = name]

LogIf(cond, msg) == IF cond THEN <<Ev("log", msg, "ok")>> ELSE << >>

----------------------------------------------------------------------------
(* mark_skips called on its own, outside create_test_db *)

MarkSkipsCall ==
    /\ pc = "idle"
    /\ directMarks < MaxDirectMarks
    /\ directMarks' = directMarks + 1
    /\ wrapDepth' = mark_skips(wrapDepth, installed)
    /\ imported' = imported \cup Resolved(installed)
    /\ UNCHANGED <<pc, opts, env, installed, service, conn, settingsName, confirm,
                   retval, raisedBy, test_database_name, dbname, events>>

----------------------------------------------------------------------------
(* create_test_db, lines 45-59: skips, name, action line *)

Start ==
    \E v \in {0, 1}, a \in BOOLEAN, s \in BOOLEAN, k \in BOOLEAN :
        /\ pc = "idle"
        /\ opts' = [verbosity |-> v, autoclobber |-> a, serialize |-> s, keepdb |-> k]
        /\ wrapDepth' = IF SkipsActive(env) THEN mark_skips(wrapDepth, installed)
                        ELSE wrapDepth
        /\ imported' = IF SkipsActive(env) THEN imported \cup Resolved(installed)
                       ELSE imported
        /\ test_database_name' = _get_test_db_name(conn.name)
        /\ events' = (IF SkipsActive(env) THEN <<Ev("mark_skips", "", "ok")>> ELSE << >>)
                     \o LogIf(v >= 1, ActionWord(k))
        /\ pc' = "create1"
        /\ UNCHANGED <<env, installed, service, conn, settingsName, confirm, retval,
                       raisedBy, dbname, directMarks>>

----------------------------------------------------------------------------
(* _create_test_db, lines 89-128 *)

\* lines 89-95, the create request returns; line 128
Create1Ok ==
    /\ pc = "create1"
    /\ dbname' = _get_test_db_name(conn.name)
    /\ CanCreate(service, dbname')
    /\ service' = Created(service, dbname')
    /\ events' = Append(events, Ev("create", dbname', "ok"))
    /\ pc' = "close"
    /\ UNCHANGED <<imported, opts, env, installed, wrapDepth, conn, settingsName, confirm,
                   retval, raisedBy, test_database_name, directMarks>>

\* lines 89-102, the create request raises
Create1Fail ==
    /\ pc = "create1"
    /\ dbname' = _get_test_db_name(conn.name)
    /\ events' = Append(events, Ev("create", dbname', "raise"))
                 \o LogIf(~opts.keepdb, "Got an error creating the test database")
    /\ pc' = AfterCreateError(opts.keepdb, opts.autoclobber)
    /\ UNCHANGED <<imported, opts, env, installed, wrapDepth, service, conn, settingsName,
                   confirm, retval, raisedBy, test_database_name, directMarks>>

\* lines 103-107 and 125-127: input() returns an answer
Input ==
    \E c \in Inputs :
        /\ pc = "input"
        /\ confirm' = c
        /\ IF Clobber(opts.autoclobber, c)
           THEN /\ pc' = "destroy"
                /\ events' = Append(events, Ev("input", c, "ok"))
           ELSE /\ pc' = "exit1"
                /\ events' = events \o <<Ev("input", c, "ok"), Ev("log", "Tests cancelled.", "ok"),
                                          Ev("exit", "1", "ok")>>
        /\ UNCHANGED <<imported, opts, env, installed, wrapDepth, service, conn, settingsName,
                       retval, raisedBy, test_database_name, dbname, directMarks>>

\* line 103: input() raises (end of file on stdin); nothing catches it
InputRaises ==
    /\ pc = "input"
    /\ events' = Append(events, Ev("input", "EOF", "raise"))
    /\ raisedBy' = "input"
    /\ pc' = "raised"
    /\ UNCHANGED <<imported, opts, env, installed, wrapDepth, service, conn, settingsName,
                   confirm, retval, test_database_name, dbname, directMarks>>

\* variant: the drop request names the connection's configured database
DestroyOk_DropsConfigured ==
    /\ pc = "destroy"
    /\ CanDrop(service, conn.name)
    /\ service' = Dropped(service, conn.name)
    /\ events' = events \o LogIf(opts.verbosity >= 1, "Destroying old test database")
                        \o <<Ev("drop", conn.name, "ok")>>
    /\ pc' = "create2"
    /\ UNCHANGED <<imported, opts, env, installed, wrapDepth, conn, settingsName, confirm,
                   retval, raisedBy, test_database_name, dbname, directMarks>>

\* lines 108-118, the drop request returns
DestroyOk ==
    /\ pc = "destroy"
    /\ CanDrop(service, dbname)
    /\ service' = Dropped(service, dbname)
    /\ events' = events \o LogIf(opts.verbosity >= 1, "Destroying old test database")
                        \o <<Ev("drop", dbname, "ok")>>
    /\ pc' = "create2"
    /\ UNCHANGED <<imported, opts, env, installed, wrapDepth, conn, settingsName, confirm,
                   retval, raisedBy, test_database_name, dbname, directMarks>>

\* variant: only the second create is inside the try block and the drop error is
\* passed over
DestroyFail_Ignored ==
    /\ pc = "destroy"
    /\ events' = events \o LogIf(opts.verbosity >= 1, "Destroying old test database")
                        \o <<Ev("drop", dbname, "raise")>>
    /\ pc' = "create2"
    /\ UNCHANGED <<imported, opts, env, installed, wrapDepth, service, conn, settingsName,
                   confirm, retval, raisedBy, test_database_name, dbname, directMarks>>

\* variant: the drop request is made outside the try block, so its error escapes
DestroyFail_Uncaught ==
    /\ pc = "destroy"
    /\ events' = events \o LogIf(opts.verbosity >= 1, "Destroying old test database")
                        \o <<Ev("drop", dbname, "raise")>>
    /\ raisedBy' = "drop"
    /\ pc' = "raised"
    /\ UNCHANGED <<imported, opts, env, installed, wrapDepth, service, conn, settingsName,
                   confirm, retval, test_database_name, dbname, directMarks>>

\* lines 108-124, the drop request raises
DestroyFail ==
    /\ pc = "destroy"
    /\ events' = events \o LogIf(opts.verbosity >= 1, "Destroying old test database")
                        \o <<Ev("drop", dbname, "raise"),
                             Ev("log", "Got an error recreating the test database", "ok"),
                             Ev("exit", "2", "ok")>>
    /\ pc' = "exit2"
    /\ UNCHANGED <<imported, opts, env, installed, wrapDepth, service, conn, settingsName,
                   confirm, retval, raisedBy, test_database_name, dbname, directMarks>>

\* line 119, the second create request returns; line 128
Create2Ok ==
    /\ pc = "create2"
    /\ CanCreate(service, dbname)
    /\ service' = Created(service, dbname)
    /\ events' = Append(events, Ev("create", dbname, "ok"))
    /\ pc' = "close"
    /\ UNCHANGED <<imported, opts, env, installed, wrapDepth, conn, settingsName, confirm,
                   retval, raisedBy, test_database_name, dbname, directMarks>>

\* variant: a failed recreation exits without the log call of lines 121-123
Create2Fail_Silent ==
    /\ pc = "create2"
    /\ events' = events \o <<Ev("create", dbname, "raise"), Ev("exit", "2", "ok")>>
    /\ pc' = "exit2"
    /\ UNCHANGED <<imported, opts, env, installed, wrapDepth, service, conn, settingsName,
                   confirm, retval, raisedBy, test_database_name, dbname, directMarks>>

\* variant: a failed recreation closes the connection before exiting
Create2Fail_ClosesFirst ==
    /\ pc = "create2"
    /\ conn' = [conn EXCEPT !.closed = @ + 1]
    /\ events' = events \o <<Ev("create", dbname, "raise"),
                             Ev("log", "Got an error recreating the test database", "ok"),
                             Ev("close", "", "ok"),
                             Ev("exit", "2", "ok")>>
    /\ pc' = "exit2"
    /\ UNCHANGED <<imported, opts, env, installed, wrapDepth, service, settingsName,
                   confirm, retval, raisedBy, test_database_name, dbname, directMarks>>

\* variant: a failed recreation goes back to destroying instead of exiting
Create2Fail_Retry ==
    /\ pc = "create2"
    /\ events' = events \o <<Ev("create", dbname, "raise"),
                             Ev("log", "Got an error recreating the test database", "ok")>>
    /\ pc' = "destroy"
    /\ UNCHANGED <<imported, opts, env, installed, wrapDepth, service, conn, settingsName,
                   confirm, retval, raisedBy, test_database_name, dbname, directMarks>>

\* lines 119-124, the second create request raises
Create2Fail ==
    /\ pc = "create2"
    /\ events' = events \o <<Ev("create", dbname, "raise"),
                             Ev("log", "Got an error recreating the test database", "ok"),
                             Ev("exit", "2", "ok")>>
    /\ pc' = "exit2"
    /\ UNCHANGED <<imported, opts, env, installed, wrapDepth, service, conn, settingsName,
                   confirm, retval, raisedBy, test_database_name, dbname, directMarks>>

----------------------------------------------------------------------------
(* create_test_db, lines 67-79 *)

\* lines 67-69 and the test of line 74
CloseAndRename ==
    /\ pc = "close"
    /\ conn' = ClosedAndRenamed(conn, test_database_name)
    /\ settingsName' = test_database_name
    /\ events' = events \o <<Ev("close", "", "ok"), Ev("set_name", test_database_name, "ok")>>
    /\ pc' = AfterRename(opts.serialize)
    /\ UNCHANGED <<imported, opts, env, installed, wrapDepth, service, confirm, retval,
                   raisedBy, test_database_name, dbname, directMarks>>

\* line 75, serialize_db_to_string returns
SerializeOk ==
    /\ pc = "serialize"
    /\ conn' = [conn EXCEPT !.snapshot = {Snapshot(service[conn.name])}]
    /\ events' = Append(events, Ev("serialize", conn.name, "ok"))
    /\ pc' = "createcachetable"
    /\ UNCHANGED <<imported, opts, env, installed, wrapDepth, service, settingsName, confirm,
                   retval, raisedBy, test_database_name, dbname, directMarks>>

\* line 75, serialize_db_to_string raises
SerializeRaises ==
    /\ pc = "serialize"
    /\ events' = Append(events, Ev("serialize", conn.name, "raise"))
    /\ raisedBy' = "serialize"
    /\ pc' = "raised"
    /\ UNCHANGED <<imported, opts, env, installed, wrapDepth, service, conn, settingsName,
                   confirm, retval, test_database_name, dbname, directMarks>>

\* line 76, call_command returns
CacheTableOk ==
    /\ pc = "createcachetable"
    /\ service' = CacheTableCreated(service, conn.name)
    /\ events' = Append(events, Ev("createcachetable", conn.name, "ok"))
    /\ pc' = "ensure"
    /\ UNCHANGED <<imported, opts, env, installed, wrapDepth, conn, settingsName, confirm,
                   retval, raisedBy, test_database_name, dbname, directMarks>>

\* variant: an error of the cache table command is passed over
CacheTableRaises_Swallowed ==
    /\ pc = "createcachetable"
    /\ events' = Append(events, Ev("createcachetable", conn.name, "raise"))
    /\ pc' = "ensure"
    /\ UNCHANGED <<imported, opts, env, installed, wrapDepth, service, conn, settingsName,
                   confirm, retval, raisedBy, test_database_name, dbname, directMarks>>

\* line 76, call_command raises
CacheTableRaises ==
    /\ pc = "createcachetable"
    /\ events' = Append(events, Ev("createcachetable", conn.name, "raise"))
    /\ raisedBy' = "createcachetable"
    /\ pc' = "raised"
    /\ UNCHANGED <<imported, opts, env, installed, wrapDepth, service, conn, settingsName,
                   confirm, retval, test_database_name, dbname, directMarks>>

\* lines 78-79, ensure_connection returns and create_test_db returns
EnsureOk ==
    /\ pc = "ensure"
    /\ CanConnect(service, conn.name)
    /\ conn' = [conn EXCEPT !.ensured = @ + 1]
    /\ events' = events \o <<Ev("ensure_connection", conn.name, "ok"),
                             Ev("return", test_database_name, "ok")>>
    /\ retval' = test_database_name
    /\ pc' = "returned"
    /\ UNCHANGED <<imported, opts, env, installed, wrapDepth, service, settingsName, confirm,
                   raisedBy, test_database_name, dbname, directMarks>>

\* line 78, ensure_connection raises
EnsureRaises ==
    /\ pc = "ensure"
    /\ events' = Append(events, Ev("ensure_connection", conn.name, "raise"))
    /\ raisedBy' = "ensure_connection"
    /\ pc' = "raised"
    /\ UNCHANGED <<imported, opts, env, installed, wrapDepth, service, conn, settingsName,
                   confirm, retval, test_database_name, dbname, directMarks>>

----------------------------------------------------------------------------

Next ==
    \/ MarkSkipsCall
    \/ Start
    \/ Create1Ok
    \/ Create1Fail
    \/ Input
    \/ InputRaises
    \/ DestroyOk
    \/ DestroyFail
    \/ Create2Ok
    \/ Create2Fail
    \/ CloseAndRename
    \/ SerializeOk
    \/ SerializeRaises
    \/ CacheTableOk
    \/ CacheTableRaises
    \/ EnsureOk
    \/ EnsureRaises

Spec == Init /\ [][Next]_vars

\* the steps of a run of create_test_db once it has started
Step ==
    \/ Create1Ok \/ Create1Fail \/ Input \/ InputRaises
    \/ DestroyOk \/ DestroyFail \/ Create2Ok \/ Create2Fail
    \/ CloseAndRename \/ SerializeOk \/ SerializeRaises
    \/ CacheTableOk \/ CacheTableRaises \/ EnsureOk \/ EnsureRaises

\* the code is sequential and every collaborator call returns or raises: a run
\* that has a next step takes it
FairSpec == Spec /\ WF_vars(Step)

----------------------------------------------------------------------------
(* Vocabulary of the properties *)

\* the identifier of the test database of this connection
TestId == _get_test_db_name(CfgName)

Idx(op) == {i \in DOMAIN events : events[i].op = op}

Count(op) == Cardinality(Idx(op))

\* every call of a comes before every call of b
Before(a, b) == \A i \in Idx(a), j \in Idx(b) : i < j

\* the first create request of the run was made and raised
FirstCreateFailed ==
    \E i \in Idx("create") :
        /\ \A j \in Idx("create") : i <= j
        /\ events[i].res = "raise"

\* a second create request was made and raised
SecondCreateFailed ==
    \E i \in Idx("create"), j \in Idx("create") : i < j /\ events[j].res = "raise"

Done == pc \in {"returned", "exit1", "exit2", "raised"}

TypeOK ==
    /\ pc \in {"idle", "create1", "input", "destroy", "create2", "close", "serialize",
               "createcachetable", "ensure", "returned", "exit1", "exit2", "raised"}
    /\ opts \in [verbosity : {0, 1}, autoclobber : BOOLEAN, serialize : BOOLEAN,
                 keepdb : BOOLEAN]
    /\ service \in [DbNames -> DbStates]
    /\ confirm \in Inputs \cup {None}
    /\ \A m \in Methods : wrapDepth[m] \in Nat

----------------------------------------------------------------------------
(* C1: in a run of create_test_db with keepdb set, no drop request is ever
   made, whether the first create request returned or raised and whatever
   autoclobber and the answer to the prompt are. *)
C1_KeepdbNeverDestroys ==
    (pc # "idle" /\ opts.keepdb) => (Count("drop") = 0 /\ pc \notin {"destroy", "create2"})

C1_Witness == pc = "returned" /\ opts.keepdb /\ FirstCreateFailed

(* C2 as stated: with autoclobber and keepdb unset and a failed first create,
   the answer "yes" makes the run perform a drop and then a second create, in
   that order; any other answer ends in exit code 1 without a drop. *)
C2_AsStated ==
    (Done /\ ~opts.autoclobber /\ ~opts.keepdb /\ FirstCreateFailed /\ confirm # None) =>
        IF confirm = "yes"
        THEN /\ Count("create") = 2
             /\ \E i \in Idx("drop"), j \in Idx("create") : i < j
        ELSE pc = "exit1" /\ Count("drop") = 0

(* C2 as amended: with autoclobber and keepdb unset and a failed first create,
   the answer "yes" makes the run issue exactly one drop request and, when the
   drop returns, a second create request right after it; when the drop raises
   no second create is made and the run ends in exit code 2. Any other answer
   ends in exit code 1 without a drop. *)
C2_YesDestroysThenRecreates ==
    (Done /\ ~opts.autoclobber /\ ~opts.keepdb /\ FirstCreateFailed /\ confirm # None) =>
        IF confirm = "yes"
        THEN /\ Count("drop") = 1
             /\ \A i \in Idx("drop") :
                    /\ events[i].res = "ok" =>
                           /\ Count("create") = 2
                           /\ i + 1 \in Idx("create")
                    /\ events[i].res = "raise" =>
                           /\ Count("create") = 1
                           /\ pc = "exit2"
        ELSE pc = "exit1" /\ Count("drop") = 0

C2_Witness ==
    /\ pc = "returned" /\ ~opts.autoclobber /\ ~opts.keepdb
    /\ confirm = "yes" /\ Count("drop") = 1 /\ Count("create") = 2

(* C3: when the second create request (the one made after the drop) raises,
   the process ends in exit code 2, exactly one drop request was made and no
   third create request is made. *)
C3_RecreateFailureExits2 ==
    SecondCreateFailed =>
        /\ pc = "exit2"
        /\ Count("drop") = 1
        /\ Count("create") = 2

C3_Witness == SecondCreateFailed /\ pc = "exit2" /\ Before("drop", "exit")

(* C4: in a run of create_test_db with autoclobber set, input() is never
   called, whatever the create and drop requests do and whatever keepdb is. *)
C4_AutoclobberNeverPrompts ==
    (pc # "idle" /\ opts.autoclobber) => (Count("input") = 0 /\ pc # "input")

C4_Witness ==
    /\ opts.autoclobber /\ ~opts.keepdb /\ FirstCreateFailed
    /\ Count("drop") = 1 /\ Done

(* C5: when create_test_db returns, the database named by the test identifier
   exists in the service and is the one the connection names; and if serialize
   was requested the connection holds exactly one snapshot, equal to the
   encoding of that database's rows at the moment of the return. *)
C5_ReadyAtReturn ==
    pc = "returned" =>
        /\ service[TestId].exists
        /\ conn.name = TestId
        /\ settingsName = TestId
        /\ retval = TestId
        /\ opts.serialize => conn.snapshot = {Snapshot(service[TestId])}

C5_Witness ==
    /\ pc = "returned" /\ opts.serialize /\ opts.keepdb /\ FirstCreateFailed
    /\ service[TestId].rows # {}

(* C6: the snapshot is on the connection only if serialize was requested, and
   on return it is there exactly if serialize was requested;
   serialize_db_to_string is called at most once in a run, exactly once in a
   run that returns with serialize requested, and never when serialize was not
   requested. *)
C6_SnapshotIffSerialize ==
    /\ conn.snapshot # {} => (pc # "idle" /\ opts.serialize)
    /\ Count("serialize") <= 1
    /\ ~opts.serialize => Count("serialize") = 0
    /\ pc = "returned" =>
           /\ (conn.snapshot # {}) <=> opts.serialize
           /\ Count("serialize") = (IF opts.serialize THEN 1 ELSE 0)

C6_Witness ==
    /\ pc = "returned" /\ opts.serialize
    /\ Cardinality(conn.snapshot) = 1 /\ Count("serialize") = 1

(* C7 as stated: in a run that returns, the steps come in the order skip
   registration, database creation, cache table, snapshot, return; the cache
   table command runs before the snapshot is taken. *)
C7_AsStated ==
    pc = "returned" =>
        /\ Before("mark_skips", "create")
        /\ Before("create", "createcachetable")
        /\ Before("createcachetable", "serialize")
        /\ Before("serialize", "return")

(* C7 as amended: in a run that returns, the steps come in the order skip
   registration (when active), create and drop requests, close and rename,
   snapshot (exactly once when requested), cache table command, connectivity
   check, return; the snapshot is taken before the cache table command runs. *)
C7_StepOrder ==
    pc = "returned" =>
        /\ SkipsActive(env) => Count("mark_skips") = 1
        /\ Before("mark_skips", "create")
        /\ Count("create") >= 1
        /\ Before("create", "close")
        /\ Before("drop", "close")
        /\ Before("close", "serialize")
        /\ opts.serialize => Count("serialize") = 1
        /\ Before("serialize", "createcachetable")
        /\ Count("createcachetable") = 1
        /\ Before("close", "createcachetable")
        /\ Before("createcachetable", "ensure_connection")
        /\ Idx("return") = {Len(events)}

C7_Witness ==
    /\ pc = "returned" /\ opts.serialize /\ SkipsActive(env)
    /\ Count("drop") = 1 /\ Before("serialize", "createcachetable")

(* C8: running mark_skips two or more times leaves every listed test method
   wrapped at most once. *)
C8_WrappedAtMostOnce == \A m \in Methods : wrapDepth[m] <= 1

(* C9: an error raised by a create or a drop request never leaves
   create_test_db uncaught: after the first create raised the run goes on
   (keepdb), asks, or destroys; after the drop or the second create raised the
   process ends in exit code 2; an uncaught error comes only from another call
   (input, or a step after the database is ready). *)
C9_ServiceErrorsCaught ==
    /\ raisedBy \notin {"create", "drop"}
    /\ pc = "raised" => raisedBy \in {"input", "serialize", "createcachetable",
                                      "ensure_connection"}
    /\ (FirstCreateFailed /\ ~opts.keepdb /\ Done) =>
           \/ pc \in {"exit1", "exit2"}
           \/ pc = "returned" /\ Count("drop") = 1 /\ Count("create") = 2
           \/ pc = "raised" /\ raisedBy = "input" /\ Count("drop") = 0
           \/ pc = "raised" /\ raisedBy # "input" /\ Count("create") = 2
    /\ (\E i \in Idx("drop") : events[i].res = "raise") => pc = "exit2"
    /\ SecondCreateFailed => pc = "exit2"
    /\ (FirstCreateFailed /\ opts.keepdb) => pc \notin {"exit1", "exit2"}

C9_Witness ==
    /\ pc = "exit2"
    /\ \E i \in Idx("drop") : events[i].res = "raise"

(* C10: when create_test_db returns, on whichever path, the connection's name
   and the settings' name equal the returned identifier, the connection was
   closed once, the cache table command ran exactly once, and
   ensure_connection ran once, after all of these, as the last step before the
   return. *)
C10_PostCreation ==
    pc = "returned" =>
        /\ conn.name = retval
        /\ settingsName = retval
        /\ retval = test_database_name
        /\ conn.closed = 1 /\ Count("close") = 1
        /\ Count("set_name") = 1
        /\ Count("createcachetable") = 1
        /\ conn.ensured = 1
        /\ Idx("ensure_connection") = {Len(events) - 1}
        /\ Idx("return") = {Len(events)}
        /\ Before("close", "ensure_connection")
        /\ Before("set_name", "ensure_connection")
        /\ Before("createcachetable", "ensure_connection")

C10_Witness ==
    /\ pc = "returned" /\ Count("drop") = 1 /\ ~opts.serialize
    /\ Count("ensure_connection") = 1

----------------------------------------------------------------------------
(* More vocabulary *)

\* the application a test method belongs to: the first component of its test case
AppOf(m) == m[1][1]

\* how many times mark_skips has run, directly or from create_test_db
MarksRun == directMarks + Count("mark_skips")

\* the first create request of the run returned
FirstCreateOk ==
    \E i \in Idx("create") :
        /\ \A j \in Idx("create") : i <= j
        /\ events[i].res = "ok"

DropFailed == \E i \in Idx("drop") : events[i].res = "raise"

InitialConn == [name |-> CfgName, closed |-> 0, ensured |-> 0, snapshot |-> {}]

(* C11: in every run that ends in exit code 1 or 2, the call just before the
   exit is a log call naming the cause (the cancellation for exit code 1, the
   recreation error for exit code 2), and every create and drop request of
   the run comes before that log call. *)
C11_FatalPathsLog ==
    pc \in {"exit1", "exit2"} =>
        /\ Len(events) >= 2
        /\ Idx("exit") = {Len(events)}
        /\ events[Len(events)].arg = (IF pc = "exit1" THEN "1" ELSE "2")
        /\ events[Len(events) - 1] =
               Ev("log",
                  IF pc = "exit1" THEN "Tests cancelled."
                  ELSE "Got an error recreating the test database",
                  "ok")
        /\ \A i \in Idx("create") \cup Idx("drop") : i < Len(events) - 1

C11_Witness == pc = "exit1" /\ confirm = "no" /\ Count("log") >= 2

(* C12: a skip entry whose application is not installed is left alone by
   mark_skips: its test case is not imported, its method is not wrapped and
   still executes; once mark_skips has run, the method of an entry whose
   application is installed has its test case imported and reports skipped
   instead of executing. mark_skips raises nothing. *)
C12_SkipOnlyInstalled ==
    /\ raisedBy # "mark_skips"
    /\ \A m \in Methods :
           IF AppOf(m) \in installed
           THEN MarksRun >= 1 =>
                    /\ m[1] \in imported
                    /\ Invoke(wrapDepth, m) = "skipped"
           ELSE /\ m[1] \notin imported
                /\ wrapDepth[m] = 0
                /\ Invoke(wrapDepth, m) = "executed"

C12_Witness ==
    /\ installed = {"app1"} /\ MarksRun >= 1
    /\ Invoke(wrapDepth, <<<<"app1", "tests", "CaseA">>, "test_x">>) = "skipped"
    /\ Invoke(wrapDepth, <<<<"app2", "tests", "CaseB">>, "test_z">>) = "executed"

(* C13: create_test_db runs mark_skips only when the environment flag is "1":
   with the flag unset or different no method is wrapped by create_test_db
   (the wrappers present are those of direct calls of mark_skips); with the
   flag set mark_skips runs once, as the first step, before the first create
   request. *)
C13_SkipsGatedByFlag ==
    /\ \A m \in Methods :
           wrapDepth[m] = (IF AppOf(m) \in installed THEN MarksRun ELSE 0)
    /\ env # "1" => Count("mark_skips") = 0
    /\ (env = "1" /\ pc # "idle") =>
           /\ Idx("mark_skips") = {1}
           /\ Before("mark_skips", "create")

C13_Witness ==
    /\ env = "0" /\ pc = "returned" /\ installed = Apps
    /\ \A m \in Methods : wrapDepth[m] = 0

(* C14: within one run every create and every drop request names the same
   identifier, the one both calls of _get_test_db_name yielded; it is the
   value create_test_db returns and the name written to the connection. *)
C14_OneIdentifier ==
    /\ \A i \in Idx("create") \cup Idx("drop") :
           /\ events[i].arg = test_database_name
           /\ events[i].arg = dbname
    /\ dbname # None => dbname = test_database_name
    /\ \A i \in Idx("set_name") : events[i].arg = test_database_name
    /\ pc = "returned" => (retval = test_database_name /\ conn.name = test_database_name)

C14_Witness ==
    /\ pc = "returned" /\ opts.autoclobber /\ Count("drop") = 1
    /\ dbname = retval

(* C15: when the cache table command raises, the error leaves create_test_db
   as it is: the run ends there, uncaught, without an exit code, without a
   further create or drop request and without the connectivity check. *)
C15_CacheTableErrorPropagates ==
    (\E i \in Idx("createcachetable") : events[i].res = "raise") =>
        /\ pc = "raised"
        /\ raisedBy = "createcachetable"
        /\ Idx("createcachetable") = {Len(events)}
        /\ Count("exit") = 0
        /\ Count("ensure_connection") = 0
        /\ conn.ensured = 0
        /\ retval = None

C15_Witness ==
    /\ pc = "raised" /\ raisedBy = "createcachetable" /\ Count("drop") = 1

(* C16: when the run ends in exit code 1 or 2 the connection is as it was:
   its name and the settings' name are the configured ones, it was not closed,
   it holds no snapshot, and neither the snapshot, the cache table command nor
   the connectivity check was called. *)
C16_ExitLeavesConnection ==
    pc \in {"exit1", "exit2"} =>
        /\ conn = InitialConn
        /\ settingsName = CfgName
        /\ Count("close") = 0
        /\ Count("set_name") = 0
        /\ Count("serialize") = 0
        /\ Count("createcachetable") = 0
        /\ Count("ensure_connection") = 0

C16_Witness ==
    /\ pc = "exit2" /\ SecondCreateFailed /\ opts.serialize /\ conn = InitialConn

(* C17: when the drop request raises, no second create request is made and
   the run ends in exit code 2 right after logging the recreation error. *)
C17_DropFailureExits2 ==
    DropFailed =>
        /\ pc = "exit2"
        /\ Count("create") = 1
        /\ Count("drop") = 1
        /\ Len(events) >= 3
        /\ events[Len(events) - 2].op = "drop"
        /\ events[Len(events) - 1] =
               Ev("log", "Got an error recreating the test database", "ok")
        /\ events[Len(events)] = Ev("exit", "2", "ok")

C17_Witness == DropFailed /\ opts.autoclobber /\ pc = "exit2"

(* C18: after a first create request that returned, the run makes no prompt,
   no drop and no second create; a prompt is made only after a failed first
   create with keepdb and autoclobber unset; a drop is made only after a
   failed first create with keepdb unset and either autoclobber set or the
   answer "yes" to the prompt that came before it. *)
C18_ClobberOnlyAfterFailure ==
    /\ FirstCreateOk =>
           /\ Count("input") = 0 /\ Count("drop") = 0 /\ Count("create") = 1
           /\ pc \notin {"input", "destroy", "create2", "exit1", "exit2"}
    /\ (Count("input") >= 1 \/ pc = "input") =>
           /\ FirstCreateFailed /\ ~opts.keepdb /\ ~opts.autoclobber
           /\ Before("create", "input") \/ Count("create") = 2
    /\ (Count("drop") >= 1 \/ pc = "destroy") =>
           /\ FirstCreateFailed /\ ~opts.keepdb
           /\ opts.autoclobber \/ confirm = "yes"
           /\ Before("input", "drop")
           /\ \E i \in Idx("create") : \A j \in Idx("drop") : i < j

C18_Witness ==
    /\ pc = "returned" /\ FirstCreateOk /\ ~opts.keepdb /\ ~opts.autoclobber
    /\ Count("create") = 1

\* the run has started and has no further step
Terminated == pc # "idle" /\ ~ENABLED Step

AtMostTwoCreatesOneDropOnePrompt ==
    Count("create") <= 2 /\ Count("drop") <= 1 /\ Count("input") <= 1

(* C19 as stated: a run that has ended has ended in a normal return, exit code
   1 or exit code 2, after at most two create requests, one drop request and
   one prompt. *)
C19_AsStated ==
    Terminated =>
        /\ pc \in {"returned", "exit1", "exit2"}
        /\ AtMostTwoCreatesOneDropOnePrompt

(* C19 as amended: every run of create_test_db that has started ends, in
   exactly one of a normal return, exit code 1, exit code 2, or an error that
   leaves it uncaught and was raised by input(), serialize_db_to_string, the
   cache table command or ensure_connection; it makes at most two create
   requests, one drop request and one prompt, and from the second create it
   goes only on to the close or to exit code 2. *)
C19_Terminates ==
    /\ [](AtMostTwoCreatesOneDropOnePrompt)
    /\ [](Terminated <=> Done)
    /\ [](pc = "raised" => raisedBy \in {"input", "serialize", "createcachetable",
                                         "ensure_connection"})
    /\ [][pc = "create2" => pc' \in {"close", "exit2"}]_vars
    /\ [][Done => pc' = pc]_vars
    /\ (pc # "idle") ~> Done

C19_Witness ==
    /\ Terminated /\ pc = "raised" /\ raisedBy = "ensure_connection"
    /\ Count("create") = 2 /\ Count("drop") = 1 /\ Count("input") = 1

====
